---- MODULE Spec2Model ----
(***************************************************************************)
(* A model of juce::ComponentBuilder                                       *)
(* (JUCE/modules/juce_gui_basics/layout/juce_ComponentBuilder.cpp).        *)
(*                                                                         *)
(* The builder mirrors a ValueTree (the state tree) by a tree of live      *)
(* Components.  State nodes carry a type tag and an "id" property; live    *)
(* components carry a component ID, a parent and an ordered child list     *)
(* (index 0 is the back of the z-order, the last index is the front).      *)
(*                                                                         *)
(* Two specifications are given:                                           *)
(*   SpecUCC : a client calls ComponentBuilder::updateChildComponents      *)
(*             directly on one parent component with arbitrary child       *)
(*             lists;                                                      *)
(*   Spec    : the builder listens to a state tree; every tree mutation    *)
(*             is delivered synchronously to the matching listener         *)
(*             callback.                                                   *)
(***************************************************************************)
EXTENDS Integers, Sequences, FiniteSets, TLC

\* ------------------------------------------------------------------------
\* Bounds
\* ------------------------------------------------------------------------
\* number of component slots (components alive at the same time)
MaxComps == 4
\* longest child list handed to a direct updateChildComponents call
MaxLen == 3
MaxTypes == 3
MaxNatives == 2
MaxLaunch == 2
MaxStr == 4
MaxName == 2
MaxCode == 2

\* ------------------------------------------------------------------------
\* Values
\* ------------------------------------------------------------------------
nullptr == 0

EmptyId == ""
Ids == {"b1", "b2", "b3"}

Comps == 1..MaxComps

\* type tags of the type handlers that exist (index = handler identity);
\* the third handler has the same tag as the second
HandlerType == <<"Panel", "Button", "Button">>
Handlers == 1..Len(HandlerType)

\* the ComponentBuilder under study (this) and another builder
This == 1
Other == 2

\* a slot of the component store that holds no live component
DeadComp == [alive |-> FALSE, cid |-> EmptyId, parent |-> nullptr, kids |-> <<>>]

\* ------------------------------------------------------------------------
\* Array helpers
\* ------------------------------------------------------------------------
RemoveAt(s, i) == SubSeq(s, 1, i - 1) \o SubSeq(s, i + 1, Len(s))

InsertAt(s, i, x) == SubSeq(s, 1, i - 1) \o <<x>> \o SubSeq(s, i, Len(s))

\* 1-based index of x in s, 0 when absent
IndexOf(s, x) ==
  IF \E i \in 1..Len(s) : s[i] = x
    THEN CHOOSE i \in 1..Len(s) : s[i] = x /\ \A j \in 1..(i - 1) : s[j] # x
    ELSE 0

Range(s) == {s[i] : i \in 1..Len(s)}

\* ------------------------------------------------------------------------
\* The live-instance platform (juce::Component)
\* ------------------------------------------------------------------------
\* Component::addAndMakeVisible (child): the child is appended (frontmost).
addAndMakeVisible(cs, p, c) ==
  IF p = nullptr THEN cs
  ELSE [cs EXCEPT ![p].kids = Append(@, c)]

\* Component::toFront (false): the component becomes the last child.
toFront(cs, c) ==
  LET p == cs[c].parent IN
  IF p = nullptr THEN cs
  ELSE LET i == IndexOf(cs[p].kids, c) IN
       IF i = 0 THEN cs
       ELSE [cs EXCEPT ![p].kids = Append(RemoveAt(@, i), c)]

\* Component::toBehind (other): the component is moved to just behind other.
toBehind(cs, c, other) ==
  LET p == cs[c].parent IN
  IF p = nullptr \/ other = nullptr \/ other = c THEN cs
  ELSE LET ks == cs[p].kids
           i  == IndexOf(ks, c)
           o  == IndexOf(ks, other)
       IN IF i = 0 \/ o = 0 \/ i + 1 = o THEN cs
          ELSE LET rest == RemoveAt(ks, i)
                   o2   == IF i < o THEN o - 1 ELSE o
               IN [cs EXCEPT ![p].kids = InsertAt(rest, o2, c)]

RECURSIVE Subtree(_, _)
\* a component and everything below it
Subtree(cs, c) ==
  {c} \cup UNION {Subtree(cs, cs[c].kids[i]) : i \in 1..Len(cs[c].kids)}

\* delete c: it leaves its parent and is released with its whole subtree
deleteComponent(cs, c) ==
  LET dead == Subtree(cs, c)
      p    == cs[c].parent
      cs1  == IF p = nullptr THEN cs
              ELSE [cs EXCEPT ![p].kids = RemoveAt(@, IndexOf(@, c))]
  IN [x \in DOMAIN cs |-> IF x \in dead THEN DeadComp ELSE cs1[x]]

\* variant: the array does not own its elements, nothing is deleted
deleteAll_Leak(cs, comps) == cs

RECURSIVE deleteAll(_, _)
\* ~OwnedArray<Component>: every remaining element is deleted
deleteAll(cs, comps) ==
  IF comps = <<>> THEN cs
  ELSE deleteAll(deleteComponent(cs, comps[Len(comps)]), SubSeq(comps, 1, Len(comps) - 1))

\* ------------------------------------------------------------------------
\* ComponentBuilderHelpers
\* ------------------------------------------------------------------------
\* t is a state tree: node -> [type, id, parent, kids]
getStateId(t, n) == t[n].id

RECURSIVE removeScan(_, _, _, _)
removeScan(components, cs, compId, i) ==
  IF i < 1 THEN [c |-> nullptr, rest |-> components]
  ELSE IF cs[components[i]].cid = compId
         THEN [c |-> components[i], rest |-> RemoveAt(components, i)]
         ELSE removeScan(components, cs, compId, i - 1)

\* variant: the scan stops before index 0 (--i > 0 instead of --i >= 0)
removeComponentWithID_SkipFirst(components, cs, compId) ==
  IF components = <<>> THEN [c |-> nullptr, rest |-> components]
  ELSE LET r == removeScan(Tail(components), cs, compId, Len(components) - 1)
       IN [c |-> r.c, rest |-> <<Head(components)>> \o r.rest]

\* variant: the match is returned but stays in the array
removeComponentWithID_KeepMatch(components, cs, compId) ==
  [c |-> removeScan(components, cs, compId, Len(components)).c, rest |-> components]

\* scans from the last index down; the match is taken out of the array
removeComponentWithID(components, cs, compId) ==
  removeScan(components, cs, compId, Len(components))

RECURSIVE findComponentWithID(_, _, _)
RECURSIVE findInChildren(_, _, _, _)
\* depth-first, pre-order search by component ID
findComponentWithID(cs, c, compId) ==
  IF cs[c].cid = compId THEN c
  ELSE findInChildren(cs, cs[c].kids, compId, 1)

findInChildren(cs, ks, compId, i) ==
  IF i > Len(ks) THEN nullptr
  ELSE LET found == findComponentWithID(cs, ks[i], compId) IN
       IF found # nullptr THEN found
       ELSE findInChildren(cs, ks, compId, i + 1)

\* ------------------------------------------------------------------------
\* Type handler registry
\* ------------------------------------------------------------------------
\* variant: the scan keeps the last handler of the type it meets
handlerScan_LastMatch(ty, targetType, i) ==
  LET m == {k \in i..Len(ty) : HandlerType[ty[k]] = targetType}
  IN  IF m = {} THEN nullptr ELSE ty[CHOOSE k \in m : \A l \in m : l <= k]

RECURSIVE handlerScan(_, _, _)
handlerScan(ty, targetType, i) ==
  IF i > Len(ty) THEN nullptr
  ELSE IF HandlerType[ty[i]] = targetType THEN ty[i]
       ELSE handlerScan(ty, targetType, i + 1)

\* ty is the registry (sequence of handlers in registration order)
getHandlerForState(ty, t, n) == handlerScan(ty, t[n].type, 1)

\* ComponentBuilder::registerTypeHandler (type) on the registry ty, b being
\* the builder field of every handler: the set of the outcomes
\* [types, builder, jassert, ub].  Both assertions only report; the handler is
\* added and its builder set whatever they found.  With a null handler
\* type->builder = this writes through a null pointer after types.add: the
\* behaviour is undefined, the registry is left as it was or holds the null.
registerTypeHandler(ty, b, type) ==
  IF type = nullptr
    THEN {[types |-> r, builder |-> b, jassert |-> TRUE, ub |-> TRUE] :
            r \in {ty, Append(ty, type)}}
    ELSE {[types |-> Append(ty, type), builder |-> [b EXCEPT ![type] = This],
           jassert |-> b[type] # nullptr, ub |-> FALSE]}

\* ------------------------------------------------------------------------
\* Creation and reconciliation.
\* A world w = [c, calls, jassert, ovf, z]: the component store, the handler
\* operations invoked so far in the current call, whether a jassert fired,
\* whether the store ran out of slots, the number of toFront and toBehind
\* calls made so far in the current call.
\* ------------------------------------------------------------------------
jassertfalse(w) == [w EXCEPT !.jassert = TRUE]

jassert(w, cond) == IF cond THEN w ELSE jassertfalse(w)

\* allocation: a new component takes the lowest slot that holds no live one
FreeSlots(cs) == {c \in DOMAIN cs : ~cs[c].alive}

NewSlot(cs) == CHOOSE c \in DOMAIN cs : ~cs[c].alive /\ \A d \in 1..(c - 1) : cs[d].alive

RECURSIVE createNewComponent(_, _, _, _, _, _)
RECURSIVE addNewComponentFromState(_, _, _, _, _, _)
RECURSIVE updateChildComponentsW(_, _, _, _, _)
RECURSIVE matchLoop(_, _, _, _, _, _)
RECURSIVE zOrderLoop(_, _, _)

\* a component is constructed in slot c, without id, as the frontmost child
\* of parent
newComponent(w, parent, c) ==
  [w EXCEPT !.c = addAndMakeVisible(
                    [w.c EXCEPT ![c] = [alive |-> TRUE, cid |-> EmptyId,
                                        parent |-> parent, kids |-> <<>>]],
                    parent, c)]

\* TypeHandler::addNewComponentFromState: a new component (in slot c) is made
\* a child of parent and its own children are built from the state's children.
addNewComponentFromState(w, t, ty, n, parent, c) ==
  [w |-> updateChildComponentsW(newComponent(w, parent, c), t, ty, c, n), c |-> c]

\* variant of lines 77-78 without the setComponentID call: the new component
\* keeps the empty id it was constructed with.
setComponentID_Forgotten(r, t, type, n, parent) ==
  [w |-> [jassert(r.w, r.c # nullptr /\ r.w.c[r.c].parent = parent)
            EXCEPT !.calls = Append(@, [op |-> "create", h |-> type, node |-> n,
                                        comp |-> r.c, parent |-> parent])],
   c |-> r.c]

\* lines 77-78: r = [w, c] is what the handler returned; the component gets
\* the id of the state.  The handler's creation is entered in calls.
setComponentID(r, t, type, n, parent) ==
  [w |-> [jassert(r.w, r.c # nullptr /\ r.w.c[r.c].parent = parent)
            EXCEPT !.c[r.c].cid = getStateId(t, n),
                   !.calls = Append(@, [op |-> "create", h |-> type, node |-> n,
                                        comp |-> r.c, parent |-> parent])],
   c |-> r.c]

\* ComponentBuilderHelpers::createNewComponent; the result is [w, c]
createNewComponent(w, t, ty, type, n, parent) ==
  IF FreeSlots(w.c) = {} THEN [w |-> [w EXCEPT !.ovf = TRUE], c |-> nullptr]
  ELSE setComponentID(addNewComponentFromState(w, t, ty, n, parent, NewSlot(w.c)),
                      t, type, n, parent)

\* variant: a state of unknown type is handed to the first registered handler
createIfHandled_AnyHandler(w, t, ty, type, childState, parent) ==
  IF type # nullptr \/ Len(ty) > 0
    THEN createNewComponent(w, t, ty, IF type # nullptr THEN type ELSE ty[1],
                            childState, parent)
    ELSE [w |-> jassertfalse(w), c |-> nullptr]

\* lines 272-275: no existing component carries the id
createIfHandled(w, t, ty, type, childState, parent) ==
  IF type # nullptr
    THEN createNewComponent(w, t, ty, type, childState, parent)
    ELSE [w |-> jassertfalse(w), c |-> nullptr]

\* lines 278-279: made = [w, c]
addInOrder(made, existing, order) ==
  [w |-> made.w, existing |-> existing,
   order |-> IF made.c # nullptr THEN Append(order, made.c) ELSE order]

\* lines 270-279 with r = [c, rest], what removeComponentWithID returned
useOrCreate(w, r, order, t, ty, parent, childState) ==
  IF r.c # nullptr
    THEN [w |-> w, existing |-> r.rest, order |-> Append(order, r.c)]
    ELSE addInOrder(createIfHandled(w, t, ty, getHandlerForState(ty, t, childState),
                                    childState, parent),
                    r.rest, order)

\* one round of the loop of lines 265-280; acc = [w, existing, order]
matchStep(acc, t, ty, parent, childState) ==
  useOrCreate(jassert(acc.w, getStateId(t, childState) # EmptyId),
              removeComponentWithID(acc.existing, acc.w.c, getStateId(t, childState)),
              acc.order, t, ty, parent, childState)

\* the loop of lines 265-280
matchLoop(acc, t, ty, parent, n, i) ==
  IF i > Len(t[n].kids) THEN acc
  ELSE matchLoop(matchStep(acc, t, ty, parent, t[n].kids[i]), t, ty, parent, n, i + 1)

\* the loop of lines 290-291; w.z counts the toFront and toBehind calls
zOrderLoop(w, componentsInOrder, i) ==
  IF i < 1 THEN w
  ELSE zOrderLoop([w EXCEPT !.c = toBehind(@, componentsInOrder[i], componentsInOrder[i + 1]),
                            !.z = @ + 1],
                  componentsInOrder, i - 1)

\* variant: only the last element is raised, the loop of toBehind calls is missing
zOrderPass_NoLoop(w, componentsInOrder) ==
  IF Len(componentsInOrder) > 0
    THEN [w EXCEPT !.c = toFront(@, componentsInOrder[Len(componentsInOrder)]),
                   !.z = @ + 1]
    ELSE w

\* variant without the size check of line 285: the front element is raised
\* even when there is none
zOrderPass_Unguarded(w, componentsInOrder) ==
  zOrderLoop([w EXCEPT !.c = IF Len(componentsInOrder) > 0
                               THEN toFront(@, componentsInOrder[Len(componentsInOrder)])
                               ELSE @,
                       !.z = @ + 1],
             componentsInOrder, Len(componentsInOrder) - 1)

\* lines 285-292
zOrderPass(w, componentsInOrder) ==
  IF Len(componentsInOrder) > 0
    THEN zOrderLoop([w EXCEPT !.c = toFront(@, componentsInOrder[Len(componentsInOrder)]),
                              !.z = @ + 1],
                    componentsInOrder, Len(componentsInOrder) - 1)
    ELSE w

\* lines 282-292: the unused existing components are deleted, then the
\* components in order get their z-order
deleteUnusedAndOrder(acc) ==
  zOrderPass([acc.w EXCEPT !.c = deleteAll(@, acc.existing)], acc.order)

\* ComponentBuilder::updateChildComponents (parent, children), children = node n
updateChildComponentsW(w, t, ty, parent, n) ==
  deleteUnusedAndOrder(
    matchLoop([w |-> w, existing |-> w.c[parent].kids, order |-> <<>>],
              t, ty, parent, n, 1))

\* ------------------------------------------------------------------------
\* The builder
\* ------------------------------------------------------------------------
\* the node the builder's state member refers to
RootNode == 1

\* r = [w, c] as the pair [w, component]
asManaged(r) == [w |-> r.w, component |-> r.c]

\* variant: an unknown root type is passed over in silence
createFromType_Silent(w, t, ty, type) ==
  IF type # nullptr
    THEN asManaged(createNewComponent(w, t, ty, type, RootNode, nullptr))
    ELSE [w |-> w, component |-> nullptr]

\* lines 147-151, type being the handler found for the root state
createFromType(w, t, ty, type) ==
  IF type # nullptr
    THEN asManaged(createNewComponent(w, t, ty, type, RootNode, nullptr))
    ELSE [w |-> jassertfalse(w), component |-> nullptr]

\* ComponentBuilder::createComponent; the result is [w, component]
createComponent(w, t, ty) ==
  createFromType(jassert(w, Len(ty) > 0), t, ty, getHandlerForState(ty, t, RootNode))

\* variant: the null check is missing, every call creates a component
getManagedComponent_AlwaysCreate(w, t, ty, comp) ==
  createComponent(w, t, ty)

\* ComponentBuilder::getManagedComponent; the result is [w, component]
getManagedComponent(w, t, ty, comp) ==
  IF comp = nullptr THEN createComponent(w, t, ty)
  ELSE [w |-> w, component |-> comp]

\* TypeHandler::updateComponentFromState: the handler brings the component's
\* children in line with the state's children
updateComponentFromState(w, t, ty, changedComp, n) ==
  updateChildComponentsW(w, t, ty, changedComp, n)

RECURSIVE updateComponent(_, _, _, _, _)

\* lines 97-98: changedComp is what findComponentWithID returned; the
\* handler's update is entered in calls
updateFound(g, t, ty, type, changedComp, n) ==
  IF changedComp # nullptr
    THEN [w |-> updateComponentFromState(
                  [g.w EXCEPT !.calls = Append(@, [op |-> "update", h |-> type, node |-> n,
                                                   comp |-> changedComp, parent |-> nullptr])],
                  t, ty, changedComp, n),
          component |-> g.component]
    ELSE g

\* lines 84-99: g = [w, component] is what getManagedComponent returned
updateManaged(g, t, ty, type, uid, n) ==
  IF g.component = nullptr THEN g
  ELSE IF type = nullptr \/ uid = EmptyId
         THEN IF t[n].parent # 0
                THEN updateComponent(g.w, t, ty, g.component, t[n].parent)
                ELSE g
         ELSE updateFound(g, t, ty, type, findComponentWithID(g.w.c, g.component, uid), n)

\* ComponentBuilderHelpers::updateComponent; the result is [w, component]
updateComponent(w, t, ty, comp, n) ==
  updateManaged(getManagedComponent(w, t, ty, comp), t, ty,
                getHandlerForState(ty, t, n), getStateId(t, n), n)

\* ------------------------------------------------------------------------
\* State
\* ------------------------------------------------------------------------
VARIABLES
  types,      \* ComponentBuilder::types, the registered handlers in order
  state,      \* the ValueTree the builder was constructed with
  component,  \* ComponentBuilder::component, the root instance or nullptr
  comps,      \* the component store: slot -> [alive, cid, parent, kids]
  srcOf,      \* the state node each live component was created from (history)
  children,   \* the ValueTree handed to the latest direct updateChildComponents call
  last,       \* what the most recent call did (history variable)
  builder,    \* TypeHandler::builder of every handler: nullptr, This or Other
  ub,         \* the process has run into undefined behaviour
  currentFileChooser,  \* FileChooser::Native::currentFileChooser
  natives,    \* every FileChooser::Native object: "none", "alive" or "destroyed"
  pending,    \* per Native, the activities started whose result is not yet delivered
  delivered,  \* per Native, the activity results that have arrived (history)
  gl          \* the active OpenGL context and the build: [version, extensions,
              \* getStringi, es, android]

\* the variables of the file chooser
fcvars == <<currentFileChooser, natives, pending, delivered>>

\* the variables of the component builder
cbvars == <<types, state, component, comps, srcOf, children, builder, ub>>

vars == <<types, state, component, comps, srcOf, children, last, builder, ub,
          currentFileChooser, natives, pending, delivered, gl>>

\* the FileChooser::Native objects that can exist
Natives == 1..MaxNatives

\* glGetString (GL_VERSION) as its space-separated tokens, each token as the
\* pair of numbers getIntValue reads from its first two point-separated
\* parts (0 where there is no number); here there is no version string
NoVersion == <<>>

\* no OpenGL context is used
NoGL ==
  [version |-> NoVersion, extensions |-> <<>>, getStringi |-> FALSE,
   es |-> FALSE, android |-> FALSE]

\* no file chooser has been shown
NoChooser ==
  /\ currentFileChooser = nullptr
  /\ natives = [n \in Natives |-> "none"]
  /\ pending = [n \in Natives |-> 0]
  /\ delivered = [n \in Natives |-> 0]

NoLast ==
  [op |-> "none", node |-> 0, calls |-> <<>>, jassert |-> FALSE,
   created |-> {}, destroyed |-> 0, hadRoot |-> FALSE, reordered |-> FALSE,
   zorder |-> 0]

World == [c |-> comps, calls |-> <<>>, jassert |-> FALSE, ovf |-> FALSE, z |-> 0]

Alive(cs) == {c \in DOMAIN cs : cs[c].alive}

CreateCalls(calls) == {i \in 1..Len(calls) : calls[i].op = "create"}

UpdateCalls(calls) == {i \in 1..Len(calls) : calls[i].op = "update"}

\* the history record of a call that took the world from the current state to w
Did(op, node, w) ==
  [op |-> op, node |-> node, calls |-> w.calls, jassert |-> w.jassert,
   created |-> Alive(w.c) \ Alive(comps),
   destroyed |-> Cardinality(Alive(comps) \ Alive(w.c)),
   hadRoot |-> component # nullptr,
   reordered |-> /\ component # nullptr
                 /\ w.c[component].kids # comps[component].kids
                 /\ Range(w.c[component].kids) = Range(comps[component].kids),
   zorder |-> w.z]

\* ------------------------------------------------------------------------
\* SpecUCC: direct calls of updateChildComponents on one parent
\* ------------------------------------------------------------------------
\* type tags a child state may carry
ChildTypes == {"Button"}

ChildState == [type : ChildTypes, id : Ids]

ChildLists == UNION {[1..k -> ChildState] : k \in 0..MaxLen}

\* the ValueTree whose children are the given list: node 1 with leaves 2..
TreeOf(list) ==
  [n \in 1..(Len(list) + 1) |->
     IF n = 1 THEN [type |-> "Panel", id |-> "root", parent |-> 0,
                    kids |-> [i \in 1..Len(list) |-> i + 1]]
     ELSE [type |-> list[n - 1].type, id |-> list[n - 1].id, parent |-> 1, kids |-> <<>>]]

EmptyTree == TreeOf(<<>>)

InitUCC ==
  /\ NoChooser
  /\ gl = NoGL
  /\ types = <<1, 2>>
  /\ builder = [h \in Handlers |-> IF h \in {1, 2} THEN This ELSE nullptr]
  /\ ub = FALSE
  /\ state = EmptyTree
  /\ component = 1
  /\ comps = [c \in Comps |-> IF c = 1
                THEN [alive |-> TRUE, cid |-> "root", parent |-> nullptr, kids |-> <<>>]
                ELSE DeadComp]
  /\ srcOf = [c \in Comps |-> 0]
  /\ children = EmptyTree
  /\ last = NoLast

\* the children of the list no existing child of the parent is left for:
\* the components a call with the list constructs
Unmatched(list) ==
  {i \in 1..Len(list) :
     Cardinality({j \in 1..i : list[j].id = list[i].id})
       > Cardinality({k \in 1..Len(comps[component].kids) :
                        comps[comps[component].kids[k]].cid = list[i].id})}

\* builder.updateChildComponents (parent, children); the store being finite,
\* only the calls whose new components find a slot are made
UpdateChildComponents ==
  \E list \in ChildLists :
    /\ Cardinality(Unmatched(list)) <= Cardinality(FreeSlots(comps))
    /\ \E t \in {TreeOf(list)}, w0 \in {World} :
       \E w \in {updateChildComponentsW(w0, t, types, component, 1)} :
         /\ ~w.ovf
         /\ comps' = w.c
         /\ children' = t
         /\ last' = Did("updateChildComponents", 1, w)
    /\ UNCHANGED <<types, state, component, srcOf, builder, ub>>
    /\ UNCHANGED fcvars
    /\ UNCHANGED gl

NextUCC == UpdateChildComponents

SpecUCC == InitUCC /\ [][NextUCC]_vars

\* ------------------------------------------------------------------------
\* Spec: the builder listening to its state tree
\* ------------------------------------------------------------------------
\* the nodes of the state tree: their ids at construction and their type tags
InitialId == <<"root", "b1", "b2", "b3">>

NodeType == <<"Panel", "Button", "Button", "Button">>

Nodes == DOMAIN InitialId

\* the values the id property of a node is changed to: the root is renamed
\* to the id of one of its children and back
RenameTo(n) == IF n = RootNode THEN {"root", "b1"} ELSE {}

\* which node may become a child of which in the tree t: any node of the
\* root, node 4 of node 2, and node 3 of node 4 when that is a child of the
\* root of a type without handler
MayAdopt(t, p, c) ==
  \/ p = RootNode
  \/ (p = 2 /\ c = 4)
  \/ (p = 4 /\ c = 3 /\ t[4].type = "Label" /\ t[4].parent = RootNode)

\* the type tag of the node that is added later: a Button, or a type that
\* no handler exists for
LaterType == {"Button", "Label"}

InitialTree(later) ==
  [n \in Nodes |-> [type |-> IF n = 4 THEN later ELSE NodeType[n], id |-> InitialId[n],
                    parent |-> IF n \in {2, 3} THEN RootNode ELSE 0,
                    kids |-> IF n = RootNode THEN <<2, 3>> ELSE <<>>]]

RECURSIVE InTree(_, _)
\* n is the root or a descendant of it
InTree(t, n) == n = RootNode \/ (t[n].parent # 0 /\ InTree(t, t[n].parent))

\* no child of p other than n carries the non-empty id v
IdFreeAmong(t, p, n, v) ==
  v = EmptyId \/ \A i \in 1..Len(t[p].kids) : t[p].kids[i] = n \/ t[t[p].kids[i]].id # v

Init ==
  /\ NoChooser
  /\ gl = NoGL
  /\ types = <<>>
  /\ builder = [h \in Handlers |-> nullptr]
  /\ ub = FALSE
  /\ \E later \in LaterType : state = InitialTree(later)
  /\ component = nullptr
  /\ comps = [c \in Comps |-> DeadComp]
  /\ srcOf = [c \in Comps |-> 0]
  /\ children = EmptyTree
  /\ last = NoLast

\* the source node of every live component after a call
NewSrc(w) ==
  [c \in Comps |->
     IF ~w.c[c].alive THEN 0
     ELSE IF \E i \in CreateCalls(w.calls) : w.calls[i].comp = c
            THEN w.calls[CHOOSE i \in CreateCalls(w.calls) : w.calls[i].comp = c].node
            ELSE srcOf[c]]

\* a listener callback for a change that made the tree t: updateComponent (*this, tree)
Notify(op, t, n) ==
  \E w0 \in {World} :
  \E r \in {updateComponent(w0, t, types, component, n)} :
    /\ ~r.w.ovf
    /\ state' = t
    /\ component' = r.component
    /\ comps' = r.w.c
    /\ srcOf' = NewSrc(r.w)
    /\ last' = Did(op, n, r.w)
    /\ UNCHANGED <<types, children, builder, ub>>
    /\ UNCHANGED fcvars
    /\ UNCHANGED gl

\* the handlers the client of this builder makes, one for each type tag
ClientHandlers == {1, 2}

\* the client registers a handler it has just made
RegisterTypeHandler ==
  \E h \in ClientHandlers :
    /\ builder[h] = nullptr
    /\ \E r \in registerTypeHandler(types, builder, h) :
         /\ types' = r.types
         /\ builder' = r.builder
         /\ ub' = r.ub
         /\ last' = Did("registerTypeHandler", h, jassert(World, ~r.jassert))
    /\ UNCHANGED <<state, component, comps, srcOf, children>>
    /\ UNCHANGED fcvars
    /\ UNCHANGED gl

\* a client asks for the root component
GetManagedComponent ==
  \E w0 \in {World} :
  \E g \in {getManagedComponent(w0, state, types, component)} :
    /\ ~g.w.ovf
    /\ component' = g.component
    /\ comps' = g.w.c
    /\ srcOf' = NewSrc(g.w)
    /\ last' = Did("getManagedComponent", RootNode, g.w)
    /\ UNCHANGED <<types, state, children, builder, ub>>
    /\ UNCHANGED fcvars
    /\ UNCHANGED gl

\* a property of a node of the tree is set to a new value
valueTreePropertyChanged ==
  \E n \in Nodes :
    /\ InTree(state, n)
    /\ \/ Notify("valueTreePropertyChanged", state, n)
       \/ \E v \in RenameTo(n) :
            /\ v # state[n].id
            /\ IF n = RootNode THEN TRUE ELSE IdFreeAmong(state, state[n].parent, n, v)
            /\ Notify("valueTreePropertyChanged", [state EXCEPT ![n].id = v], n)

\* a detached node becomes the first or the last child of p
valueTreeChildAdded ==
  \E p \in Nodes, c \in Nodes \ {RootNode} :
    /\ InTree(state, p)
    /\ state[c].parent = 0
    /\ MayAdopt(state, p, c)
    /\ IdFreeAmong(state, p, c, state[c].id)
    /\ \E i \in {1, Len(state[p].kids) + 1} :
         Notify("valueTreeChildAdded",
                [state EXCEPT ![p].kids = InsertAt(@, i, c), ![c].parent = p], p)

\* the i-th child of p is removed from it
valueTreeChildRemoved ==
  \E p \in Nodes :
    /\ InTree(state, p)
    /\ \E i \in 1..Len(state[p].kids) :
         Notify("valueTreeChildRemoved",
                [state EXCEPT ![p].kids = RemoveAt(@, i), ![state[p].kids[i]].parent = 0], p)

\* the i-th child of p is moved to index j
valueTreeChildOrderChanged ==
  \E p \in Nodes :
    /\ InTree(state, p)
    /\ \E i, j \in 1..Len(state[p].kids) :
         /\ i # j
         /\ Notify("valueTreeChildOrderChanged",
                   [state EXCEPT ![p].kids = InsertAt(RemoveAt(@, i), j, state[p].kids[i])], p)

\* the root of the tree is given another parent or loses it
valueTreeParentChanged ==
  Notify("valueTreeParentChanged", state, RootNode)

Next ==
  \/ RegisterTypeHandler
  \/ GetManagedComponent
  \/ valueTreePropertyChanged
  \/ valueTreeChildAdded
  \/ valueTreeChildRemoved
  \/ valueTreeChildOrderChanged
  \/ valueTreeParentChanged

Spec == Init /\ [][Next]_vars

\* ------------------------------------------------------------------------
\* The registry alone (SpecReg): a client that registers whatever it likes,
\* a null, a handler twice, a handler of another builder, two handlers of
\* one type, and looks handlers up.
\* ------------------------------------------------------------------------
\* the history record of a call on the registry
DidReg(op, arg, result, asserted) ==
  [op |-> op, node |-> arg, result |-> result, jassert |-> asserted]

InitReg ==
  /\ NoChooser
  /\ gl = NoGL
  /\ types = <<>>
  /\ builder \in [Handlers -> {nullptr, Other}]
  /\ ub = FALSE
  /\ \E later \in LaterType : state = InitialTree(later)
  /\ component = nullptr
  /\ comps = [c \in Comps |-> DeadComp]
  /\ srcOf = [c \in Comps |-> 0]
  /\ children = EmptyTree
  /\ last = DidReg("none", nullptr, nullptr, FALSE)

\* builder.registerTypeHandler (type), with any argument
RegisterAny ==
  \E type \in Handlers \cup {nullptr} :
    /\ ~ub
    /\ Len(types) < MaxTypes
    /\ \E r \in registerTypeHandler(types, builder, type) :
         /\ types' = r.types
         /\ builder' = r.builder
         /\ ub' = r.ub
         /\ last' = DidReg("registerTypeHandler", type, nullptr, r.jassert)
    /\ UNCHANGED <<state, component, comps, srcOf, children>>
    /\ UNCHANGED fcvars
    /\ UNCHANGED gl

\* builder.getHandlerForState (s) for a node s of the tree
GetHandlerForState ==
  \E n \in Nodes :
    /\ ~ub
    /\ last' = DidReg("getHandlerForState", n, getHandlerForState(types, state, n), FALSE)
    /\ UNCHANGED <<types, builder, ub, state, component, comps, srcOf, children>>
    /\ UNCHANGED fcvars
    /\ UNCHANGED gl

NextReg ==
  \/ RegisterAny
  \/ GetHandlerForState

SpecReg == InitReg /\ [][NextReg]_vars

\* ------------------------------------------------------------------------
\* The native file chooser of Android (SpecFC): clients that show choosers,
\* launch them and destroy them, and the activities that deliver results.
\* ------------------------------------------------------------------------
\* FileChooser::Native::Native, lines 55-60 and 143-144, for the new object n
\* with cur the value of currentFileChooser: the result is [cur, jassert]
NativeCtor(cur, n) ==
  IF cur = nullptr THEN [cur |-> n, jassert |-> FALSE]
  ELSE [cur |-> cur, jassert |-> TRUE]

\* variant: the destructor leaves currentFileChooser as it is
NativeDtor_KeepCurrent(cur, n) == cur

\* FileChooser::Native::~Native of the object n: the new currentFileChooser
NativeDtor(cur, n) == nullptr

\* FileChooser::showPlatformDialog, n being the object make_shared would
\* construct: the result is [result, cur, jassert, made]
showPlatformDialog(cur, n) ==
  IF cur = nullptr
    THEN [result |-> n, cur |-> NativeCtor(cur, n).cur,
          jassert |-> NativeCtor(cur, n).jassert, made |-> TRUE]
    ELSE [result |-> nullptr, cur |-> cur, jassert |-> TRUE, made |-> FALSE]

\* Activity.RESULT_OK and Activity.RESULT_CANCELED
RESULT_OK == -1
RESULT_CANCELED == 0

\* the intents an activity hands back: none, or one with a ClipData (a list
\* of items, "" being an item without Uri), with a data Uri, or with neither
IntentData ==
  {[isNull |-> TRUE,  hasClip |-> FALSE, clip |-> <<>>, data |-> ""],
   [isNull |-> FALSE, hasClip |-> FALSE, clip |-> <<>>, data |-> ""],
   [isNull |-> FALSE, hasClip |-> FALSE, clip |-> <<>>, data |-> "u1"],
   [isNull |-> FALSE, hasClip |-> TRUE,  clip |-> <<"u1", "", "u2">>, data |-> "u3"]}

\* the loop of lines 198-205 over the items of a ClipData, from item i on
RECURSIVE clipUrls(_, _)
clipUrls(clip, i) ==
  IF i > Len(clip) THEN <<>>
  ELSE IF clip[i] # "" THEN <<clip[i]>> \o clipUrls(clip, i + 1)
       ELSE clipUrls(clip, i + 1)

\* the lambda getUrls of lines 183-215
getUrls(resultCode, intentData) ==
  IF resultCode # RESULT_OK \/ intentData.isNull THEN <<>>
  ELSE IF intentData.hasClip THEN clipUrls(intentData.clip, 1)
  ELSE IF intentData.data # "" THEN <<intentData.data>>
  ELSE <<>>

\* the history record of a call on a file chooser that did not reach
\* owner.finished
DidFC(op, n, result, asserted) ==
  [op |-> op, node |-> n, result |-> result, jassert |-> asserted,
   finished |-> <<>>, resultCode |-> RESULT_CANCELED, isNull |-> TRUE]

\* the history record of an activity result: finished holds the argument of
\* every owner.finished call made
DidResult(n, result, finished, resultCode, intentData) ==
  [op |-> "onActivityResult", node |-> n, result |-> result, jassert |-> FALSE,
   finished |-> finished, resultCode |-> resultCode, isNull |-> intentData.isNull]

\* the object a new Native would be
NewNative == CHOOSE n \in Natives : natives[n] = "none" /\ \A m \in Natives : natives[m] = "none" => n <= m

InitFC ==
  /\ NoChooser
  /\ gl = NoGL
  /\ types = <<>>
  /\ builder = [h \in Handlers |-> nullptr]
  /\ ub = FALSE
  /\ state = EmptyTree
  /\ component = nullptr
  /\ comps = [c \in Comps |-> DeadComp]
  /\ srcOf = [c \in Comps |-> 0]
  /\ children = EmptyTree
  /\ last = DidFC("none", nullptr, nullptr, FALSE)

\* FileChooser::showPlatformDialog (owner, flags, preview)
ShowPlatformDialog ==
  /\ \E n \in Natives : natives[n] = "none"
  /\ \E r \in {showPlatformDialog(currentFileChooser, NewNative)} :
       /\ currentFileChooser' = r.cur
       /\ natives' = IF r.made THEN [natives EXCEPT ![r.result] = "alive"] ELSE natives
       /\ last' = DidFC("showPlatformDialog", nullptr, r.result, r.jassert)
  /\ UNCHANGED <<pending, delivered>>
  /\ UNCHANGED cbvars
  /\ UNCHANGED gl

\* the last shared_ptr to the Native n goes away: ~Native
DestroyNative ==
  \E n \in Natives :
    /\ natives[n] = "alive"
    /\ natives' = [natives EXCEPT ![n] = "destroyed"]
    /\ currentFileChooser' = NativeDtor(currentFileChooser, n)
    /\ last' = DidFC("~Native", n, nullptr, FALSE)
    /\ UNCHANGED <<pending, delivered>>
    /\ UNCHANGED cbvars
    /\ UNCHANGED gl

\* line 163: the condition under which launch starts the activity
launchAllowed(cur, n) == cur # nullptr

\* FileChooser::Native::launch on the object n, which has started fewer than
\* MaxLaunch activities so far
launch ==
  \E n \in Natives :
    /\ natives[n] = "alive"
    /\ pending[n] + delivered[n] < MaxLaunch
    /\ IF launchAllowed(currentFileChooser, n)
         THEN /\ pending' = [pending EXCEPT ![n] = @ + 1]
              /\ last' = DidFC("launch", n, n, FALSE)
         ELSE /\ pending' = pending
              /\ last' = DidFC("launch", n, nullptr, TRUE)
    /\ UNCHANGED <<currentFileChooser, natives, delivered>>
    /\ UNCHANGED cbvars
    /\ UNCHANGED gl

\* the result of an activity started by n arrives: the callback of lines
\* 166-170 and, while the object lives, FileChooser::Native::onActivityResult
onActivityResult ==
  \E n \in Natives, resultCode \in {RESULT_OK, RESULT_CANCELED}, intentData \in IntentData :
    /\ pending[n] > 0
    /\ pending' = [pending EXCEPT ![n] = @ - 1]
    /\ delivered' = [delivered EXCEPT ![n] = @ + 1]
    /\ IF natives[n] = "alive"
         THEN /\ currentFileChooser' = nullptr
              /\ last' = DidResult(n, n, <<getUrls(resultCode, intentData)>>,
                                    resultCode, intentData)
         ELSE /\ currentFileChooser' = currentFileChooser
              /\ last' = DidResult(n, nullptr, <<>>, resultCode, intentData)
    /\ UNCHANGED natives
    /\ UNCHANGED cbvars
    /\ UNCHANGED gl

NextFC ==
  \/ ShowPlatformDialog
  \/ DestroyNative
  \/ launch
  \/ onActivityResult

SpecFC == InitFC /\ [][NextFC]_vars

\* ------------------------------------------------------------------------
\* OpenGLHelpers.  A C string is the sequence of its characters; the
\* characters of an extension string are "a", "b" and the space.
\* ------------------------------------------------------------------------
\* variant: a version is less when one of its numbers is less
VersionLess_AnyNumber(a, b) == a.major < b.major \/ a.minor < b.minor

\* Version::toTuple compared with <, as std::tuple compares: first element
\* first
VersionLess(a, b) == a.major < b.major \/ (a.major = b.major /\ a.minor < b.minor)

\* Version::operator>=
VersionGeq(a, b) == ~VersionLess(a, b)

RECURSIVE firstVersion(_, _)
\* the loop of lines 108-117 over the tokens of the version string
firstVersion(tokens, i) ==
  IF i > Len(tokens) THEN [major |-> 0, minor |-> 0]
  ELSE IF tokens[i].major # 0 THEN tokens[i]
       ELSE firstVersion(tokens, i + 1)

\* getOpenGLVersion; a missing version string has no token
getOpenGLVersion(g) == firstVersion(g.version, 1)

\* a occurs in s at index i
MatchAt(s, a, i) ==
  /\ i + Len(a) - 1 <= Len(s)
  /\ \A k \in 1..Len(a) : s[i + k - 1] = a[k]

\* strstr (s + from - 1, a): the index of the first occurrence of a in s at
\* or after index from, 0 if there is none
strstr(s, a, from) ==
  LET hits == {i \in from..Len(s) : MatchAt(s, a, i)}
  IN  IF hits = {} THEN 0 ELSE CHOOSE i \in hits : \A j \in hits : i <= j

RECURSIVE legacyScan(_, _, _)
\* the loop of lines 165-176, extensions pointing at index from
legacyScan(s, extensionName, from) ==
  LET found == strstr(s, extensionName, from) IN
  IF found = 0 THEN FALSE
  ELSE IF found + Len(extensionName) > Len(s) \/ s[found + Len(extensionName)] = " "
         THEN TRUE
         ELSE legacyScan(s, extensionName, found + Len(extensionName))

\* the space-separated tokens of a string
Tokens(s) ==
  {SubSeq(s, p[1], p[2]) :
     p \in {q \in (1..Len(s)) \X (1..Len(s)) :
              /\ q[1] <= q[2]
              /\ \A k \in q[1]..q[2] : s[k] # " "
              /\ (q[1] = 1 \/ s[q[1] - 1] = " ")
              /\ (q[2] = Len(s) \/ s[q[2] + 1] = " ")}}

\* the legacy path of isExtensionSupported is taken: lines 148 and 152
LegacyPath(g) == ~(getOpenGLVersion(g).major >= 3 /\ g.getStringi)

\* OpenGLHelpers::isExtensionSupported; glGetStringi (GL_EXTENSIONS, i)
\* hands out the tokens of the extension string one by one
isExtensionSupported(g, extensionName) ==
  IF LegacyPath(g) THEN legacyScan(g.extensions, extensionName, 1)
  ELSE extensionName \in Tokens(g.extensions)

\* the history record of a call of an OpenGL helper
DidGL(op, arg, result) == [op |-> op, arg |-> arg, result |-> result]

\* the extension strings and the extension names of the model
ExtStrings == UNION {[1..k -> {"a", "b", " "}] : k \in 0..MaxStr}
ExtNames == UNION {[1..k -> {"a", "b"}] : k \in 1..MaxName}

\* the version strings of the contexts of SpecExt: "2.1", "OpenGL 3.0"
ExtVersions ==
  {<<[major |-> 2, minor |-> 1]>>,
   <<[major |-> 0, minor |-> 0], [major |-> 3, minor |-> 0]>>}

\* an OpenGL context is active, with any extension string
InitExt ==
  /\ NoChooser
  /\ gl \in [version : ExtVersions, extensions : ExtStrings, getStringi : BOOLEAN,
              es : {FALSE}, android : {FALSE}]
  /\ types = <<>>
  /\ builder = [h \in Handlers |-> nullptr]
  /\ ub = FALSE
  /\ state = EmptyTree
  /\ component = nullptr
  /\ comps = [c \in Comps |-> DeadComp]
  /\ srcOf = [c \in Comps |-> 0]
  /\ children = EmptyTree
  /\ last = DidGL("none", <<>>, FALSE)

\* OpenGLHelpers::isExtensionSupported (extensionName)
IsExtensionSupported ==
  \E extensionName \in ExtNames :
    /\ last' = DidGL("isExtensionSupported", extensionName,
                     isExtensionSupported(gl, extensionName))
    /\ UNCHANGED <<cbvars, fcvars, gl>>

NextExt == IsExtensionSupported

SpecExt == InitExt /\ [][NextExt]_vars

\* ------------------------------------------------------------------------
\* The shader helpers (SpecGLSL).  A String of shader code is the sequence of
\* its pieces; the pieces that matter are the words the helpers replace.
\* ------------------------------------------------------------------------
\* Version (3, 2)
V32 == [major |-> 3, minor |-> 2]

\* OpenGLHelpers::getGLSLVersionString
getGLSLVersionString(g) ==
  IF VersionGeq(getOpenGLVersion(g), V32)
    THEN IF g.es THEN "#version 300 es" ELSE "#version 150"
    ELSE "#version 110"

\* String::replace (from, to) on the pieces of code
replace(code, from, to) ==
  [i \in 1..Len(code) |-> IF code[i] = from THEN to ELSE code[i]]

\* "layout(location=" + String (k) + ") in " for k = 0, 1, ...
Location ==
  <<"layout(location=0) in", "layout(location=1) in", "layout(location=2) in",
    "layout(location=3) in">>

\* the number of "attribute " pieces in code: the loop of lines 220-221
countAttributes(code) == Cardinality({i \in 1..Len(code) : code[i] = "attribute"})

RECURSIVE numberAttributes(_, _, _)
\* the loop of lines 225-232 from piece i on: every "attribute " becomes the
\* layout qualifier of --numAttributes
numberAttributes(code, i, numAttributes) ==
  IF i > Len(code) THEN <<>>
  ELSE IF code[i] = "attribute"
         THEN <<Location[numAttributes]>> \o numberAttributes(code, i + 1, numAttributes - 1)
         ELSE <<code[i]>> \o numberAttributes(code, i + 1, numAttributes)

\* lines 215-236: the attributes of the vertex shader
translateAttributes(g, code) ==
  IF g.android THEN numberAttributes(code, 1, countAttributes(code))
  ELSE replace(code, "attribute", "in")

\* OpenGLHelpers::translateVertexShaderToV3
translateVertexShaderToV3(g, code) ==
  IF VersionGeq(getOpenGLVersion(g), V32)
    THEN <<getGLSLVersionString(g), "\n">>
           \o replace(translateAttributes(g, code), "varying", "out")
    ELSE code

\* OpenGLHelpers::translateFragmentShaderToV3
translateFragmentShaderToV3(g, code) ==
  IF VersionGeq(getOpenGLVersion(g), V32)
    THEN <<getGLSLVersionString(g), "\n", "out JUCE_MEDIUMP vec4 fragColor;\n">>
           \o replace(replace(replace(code, "varying", "in"), "texture2D", "texture"),
                      "gl_FragColor", "fragColor")
    ELSE code

\* the tokens of the version strings of the model: a word, and the versions
\* 2.0 to 4.9
VersionTokens ==
  {[major |-> 0, minor |-> 0]} \cup [major : 2..4, minor : {0, 1, 2, 9}]

\* the version strings: none, one token, a word before a token ("OpenGL
\* 3.2"), and two versions in a row
VersionStrings ==
  {NoVersion} \cup {<<v>> : v \in VersionTokens}
    \cup {<<[major |-> 0, minor |-> 0], v>> : v \in VersionTokens}
    \cup {<<[major |-> 2, minor |-> 9], [major |-> 4, minor |-> 0]>>}

\* the builds: desktop, OpenGL ES, Android (which is an OpenGL ES build)
Builds == {<<FALSE, FALSE>>, <<TRUE, FALSE>>, <<TRUE, TRUE>>}

\* the shader codes of the model
Codes ==
  UNION {[1..k -> {"attribute", "varying", "gl_FragColor", "x"}] :
           k \in 0..MaxCode}

\* an OpenGL context of any version in a desktop, ES or Android build
InitGLSL ==
  /\ NoChooser
  /\ \E v \in VersionStrings, b \in Builds :
       gl = [version |-> v, extensions |-> <<>>, getStringi |-> FALSE,
             es |-> b[1], android |-> b[2]]
  /\ types = <<>>
  /\ builder = [h \in Handlers |-> nullptr]
  /\ ub = FALSE
  /\ state = EmptyTree
  /\ component = nullptr
  /\ comps = [c \in Comps |-> DeadComp]
  /\ srcOf = [c \in Comps |-> 0]
  /\ children = EmptyTree
  /\ last = DidGL("none", <<>>, <<>>)

\* OpenGLHelpers::getGLSLVersionString()
GetGLSLVersionString ==
  /\ last' = DidGL("getGLSLVersionString", <<>>, getGLSLVersionString(gl))
  /\ UNCHANGED <<cbvars, fcvars, gl>>

\* OpenGLHelpers::translateVertexShaderToV3 (code)
TranslateVertexShaderToV3 ==
  \E code \in Codes :
    /\ last' = DidGL("translateVertexShaderToV3", code, translateVertexShaderToV3(gl, code))
    /\ UNCHANGED <<cbvars, fcvars, gl>>

\* OpenGLHelpers::translateFragmentShaderToV3 (code)
TranslateFragmentShaderToV3 ==
  \E code \in Codes :
    /\ last' = DidGL("translateFragmentShaderToV3", code,
                     translateFragmentShaderToV3(gl, code))
    /\ UNCHANGED <<cbvars, fcvars, gl>>

NextGLSL ==
  \/ GetGLSLVersionString
  \/ TranslateVertexShaderToV3
  \/ TranslateFragmentShaderToV3

SpecGLSL == InitGLSL /\ [][NextGLSL]_vars

\* ------------------------------------------------------------------------
\* Properties of updateChildComponents (SpecUCC)
\* ------------------------------------------------------------------------
\* component IDs of p's children, back to front
KidIds(cs, p) == [i \in 1..Len(cs[p].kids) |-> cs[cs[p].kids[i]].cid]

\* ids of the child states of a children tree, in list order
ListIds(t) == [i \in 1..Len(t[1].kids) |-> t[t[1].kids[i]].id]

ListTypes(t) == [i \in 1..Len(t[1].kids) |-> t[t[1].kids[i]].type]

Distinct(s) == \A i, j \in 1..Len(s) : i # j => s[i] # s[j]

NonEmptyIds(s) == \A i \in 1..Len(s) : s[i] # EmptyId

Count(s, x) == Cardinality({i \in 1..Len(s) : s[i] = x})

\* a and b hold the same elements the same number of times
IsPermutation(a, b) ==
  /\ Len(a) = Len(b)
  /\ \A x \in Range(a) \cup Range(b) : Count(a, x) = Count(b, x)

RegisteredTypes == {HandlerType[types[i]] : i \in 1..Len(types)}

CalledUCC == last.op = "updateChildComponents"

\* C1: after updateChildComponents with a new child list of distinct
\* non-empty ids and registered types, the parent's children read back to
\* front are exactly the instances of the new list in list order (so the
\* last element of the list is frontmost), whatever the order was before.
C1_ZOrderMatchesNewList ==
  (CalledUCC /\ Distinct(ListIds(children)) /\ NonEmptyIds(ListIds(children))
     /\ Range(ListTypes(children)) \subseteq RegisteredTypes)
  => /\ KidIds(comps, component) = ListIds(children)
     /\ Distinct(comps[component].kids)
     /\ \A i \in 1..Len(comps[component].kids) :
          /\ comps[comps[component].kids[i]].alive
          /\ comps[comps[component].kids[i]].parent = component

\* a call with three distinct ids that left the children in an order other
\* than their order of creation, some of them reused and moved
C1_Witness ==
  /\ CalledUCC
  /\ Len(comps[component].kids) = 3
  /\ Distinct(ListIds(children))
  /\ last.reordered
  /\ comps[component].kids[1] > comps[component].kids[3]

\* C2: when the existing children carry distinct non-empty ids and the new
\* list's ids are a permutation of them, updateChildComponents creates
\* nothing, destroys nothing and keeps the same set of live instances.
C2_MinimalChurn ==
  [][(/\ last'.op = "updateChildComponents"
      /\ Distinct(KidIds(comps, component))
      /\ NonEmptyIds(KidIds(comps, component))
      /\ IsPermutation(ListIds(children'), KidIds(comps, component)))
     => /\ CreateCalls(last'.calls) = {}
        /\ Alive(comps') = Alive(comps)
        /\ Range(comps'[component].kids) = Range(comps[component].kids)
        /\ \A c \in Range(comps[component].kids) : comps'[c].cid = comps[c].cid]_vars

\* three children were reordered by a call that created and destroyed nothing
C2_Witness ==
  /\ CalledUCC
  /\ Len(comps[component].kids) = 3
  /\ Distinct(ListIds(children))
  /\ last.reordered
  /\ last.created = {}
  /\ last.destroyed = 0

\* C3 as stated: every existing child whose id is missing from the new list
\* is destroyed and leaves the parent, every existing child whose id occurs
\* in it survives as the same instance.
C3_AsStated ==
  [][last'.op = "updateChildComponents"
     => \A c \in Range(comps[component].kids) :
          IF comps[c].cid \in Range(ListIds(children'))
            THEN comps'[c].alive /\ c \in Range(comps'[component].kids)
            ELSE ~comps'[c].alive /\ c \notin Range(comps'[component].kids)]_vars

\* C3 (amended): the same, for existing children whose ids are pairwise
\* distinct.
C3_Removal ==
  [][(last'.op = "updateChildComponents" /\ Distinct(KidIds(comps, component)))
     => \A c \in Range(comps[component].kids) :
          IF comps[c].cid \in Range(ListIds(children'))
            THEN /\ comps'[c].alive
                 /\ c \in Range(comps'[component].kids)
                 /\ comps'[c].cid = comps[c].cid
            ELSE ~comps'[c].alive /\ c \notin Range(comps'[component].kids)]_vars

\* existing {b1,b2,b3}, new list {b1,b3}: one child destroyed, two survive
\* with b3 frontmost
C3_Witness ==
  /\ CalledUCC
  /\ ListIds(children) = <<"b1", "b3">>
  /\ KidIds(comps, component) = <<"b1", "b3">>
  /\ last.destroyed = 1
  /\ last.created = {}

\* C17: updateChildComponents with an empty new child list destroys every
\* existing child of the parent, invokes no handler creation and makes no
\* toFront or toBehind call.
C17_EmptyListClears ==
  [][(last'.op = "updateChildComponents" /\ children'[1].kids = <<>>)
     => /\ \A c \in Range(comps[component].kids) : ~comps'[c].alive
        /\ comps'[component].kids = <<>>
        /\ last'.destroyed = Len(comps[component].kids)
        /\ last'.created = {}
        /\ last'.calls = <<>>
        /\ last'.zorder = 0]_vars

\* three children existed and the call with the empty list destroyed them
C17_Witness ==
  /\ CalledUCC
  /\ children[1].kids = <<>>
  /\ last.destroyed = 3
  /\ comps[component].kids = <<>>
  /\ last.zorder = 0

\* the indices of the children of p that carry the id, in cs
WithId(cs, p, id) == {k \in 1..Len(cs[p].kids) : cs[cs[p].kids[k]].cid = id}

\* the number of occurrences of s[i] in s before index i
Earlier(s, i) == Cardinality({j \in 1..(i - 1) : s[j] = s[i]})

\* the n-th highest element of a set of numbers
NthHighest(S, n) == CHOOSE k \in S : Cardinality({l \in S : l > k}) = n - 1

\* C18 as stated: after updateChildComponents no instance is twice among the
\* parent's children; the first occurrence of an id in the new list reuses
\* the existing child with that id of the highest child index, and every
\* later occurrence of the id gets a newly created instance.
C18_AsStated ==
  [][last'.op = "updateChildComponents" =>
       LET ids == ListIds(children')
           old == comps[component].kids
           new == comps'[component].kids
       IN  /\ Len(new) = Len(ids)
           /\ Distinct(new)
           /\ \A i \in 1..Len(ids) :
                IF Earlier(ids, i) > 0 THEN new[i] \in last'.created
                ELSE IF WithId(comps, component, ids[i]) = {} THEN new[i] \in last'.created
                ELSE new[i] = old[NthHighest(WithId(comps, component, ids[i]), 1)]]_vars

\* C18 (amended): after updateChildComponents no instance is twice among the
\* parent's children; the n-th occurrence of an id in the new list reuses the
\* existing child with that id of the n-th highest child index, and gets a
\* newly created instance when fewer than n existing children carry the id.
C18_ConsumedOnce ==
  [][last'.op = "updateChildComponents" =>
       LET ids == ListIds(children')
           old == comps[component].kids
           new == comps'[component].kids
       IN  /\ Len(new) = Len(ids)
           /\ Distinct(new)
           /\ \A i \in 1..Len(ids) :
                IF Earlier(ids, i) >= Cardinality(WithId(comps, component, ids[i]))
                  THEN new[i] \in last'.created
                  ELSE new[i] = old[NthHighest(WithId(comps, component, ids[i]),
                                               Earlier(ids, i) + 1)]]_vars

\* three children with the id b1 existed and the new list names b1 twice:
\* the two of the highest indices were reused, in reverse order, and the
\* third was destroyed
C18_Witness ==
  /\ CalledUCC
  /\ ListIds(children) = <<"b1", "b1">>
  /\ last.created = {}
  /\ last.destroyed = 1
  /\ KidIds(comps, component) = <<"b1", "b1">>
  /\ Distinct(comps[component].kids)

\* C4: when the new list is the existing children's ids followed by nodes of
\* registered types whose ids match no existing child, exactly one instance
\* is created per such node, parented to the given parent, nothing is
\* destroyed and the final order equals the new list.
C4_Addition ==
  [][LET old   == KidIds(comps, component)
         new   == ListIds(children')
         k     == Len(old)
         extra == (k + 1)..Len(new)
     IN (/\ last'.op = "updateChildComponents"
         /\ Len(new) >= k
         /\ IsPermutation(SubSeq(new, 1, k), old)
         /\ \A i \in extra : /\ new[i] \notin Range(old)
                             /\ ListTypes(children')[i] \in RegisteredTypes)
        => /\ Len(last'.calls) = Cardinality(extra)
           /\ \A j \in 1..Len(last'.calls) :
                /\ last'.calls[j].op = "create"
                /\ last'.calls[j].node = children'[1].kids[k + j]
                /\ last'.calls[j].parent = component
                /\ comps'[last'.calls[j].comp].parent = component
                /\ last'.calls[j].comp \notin Alive(comps)
           /\ Cardinality(Alive(comps')) = Cardinality(Alive(comps)) + Cardinality(extra)
           /\ Alive(comps) \subseteq Alive(comps')
           /\ Range(comps[component].kids) \subseteq Range(comps'[component].kids)
           /\ KidIds(comps', component) = new]_vars

\* existing {b1,b2}, new list {b1,b2,b3}: one instance created, frontmost
C4_Witness ==
  /\ CalledUCC
  /\ ListIds(children) = <<"b1", "b2", "b3">>
  /\ Cardinality(last.created) = 1
  /\ last.destroyed = 0
  /\ Len(comps[component].kids) = 3
  /\ comps[component].kids[3] \in last.created

\* ------------------------------------------------------------------------
\* Properties of the listening builder (Spec)
\* ------------------------------------------------------------------------
NotificationOps ==
  {"valueTreePropertyChanged", "valueTreeChildAdded", "valueTreeChildRemoved",
   "valueTreeChildOrderChanged", "valueTreeParentChanged"}

ChildListOps ==
  {"valueTreeChildAdded", "valueTreeChildRemoved", "valueTreeChildOrderChanged"}

\* the tree holds Panel "root" over leaves, every node under its initial id
Pristine(t) ==
  \A n \in Nodes : /\ t[n].id = InitialId[n]
                   /\ t[n].type = NodeType[n]
                   /\ n # RootNode => t[n].kids = <<>>

\* a node the builder treats as having no instance of its own
Unmapped(ty, t, n) == getHandlerForState(ty, t, n) = nullptr \/ getStateId(t, n) = EmptyId

RECURSIVE NearestMapped(_, _, _)
\* n or its nearest ancestor that has a handler and a non-empty id, 0 if none
NearestMapped(ty, t, n) ==
  IF n = 0 THEN 0
  ELSE IF ~Unmapped(ty, t, n) THEN n
       ELSE NearestMapped(ty, t, t[n].parent)

\* C5: with root Panel "root" over Button "b1", Button "b2", the initial
\* build yields root "root" with children "b1","b2" in that order; removing
\* "b1" leaves the instance of "b2" as the only child; then adding Button
\* "b3" at the end yields children "b2","b3" where "b2" is still the same
\* instance and "b3" is new.  Each step starts where the one before ended.
C5_EndToEnd ==
  [][LET both == {"Panel", "Button"} \subseteq RegisteredTypes IN
     /\ (/\ last'.op = "getManagedComponent"
         /\ component = nullptr /\ both
         /\ Pristine(state) /\ state[RootNode].kids = <<2, 3>>)
        => /\ component' # nullptr
           /\ comps'[component'].alive
           /\ comps'[component'].cid = "root"
           /\ KidIds(comps', component') = <<"b1", "b2">>
     /\ (/\ last'.op = "valueTreeChildRemoved"
         /\ component # nullptr /\ both
         /\ Pristine(state) /\ state[RootNode].kids = <<2, 3>>
         /\ state'[RootNode].kids = <<3>>
         /\ comps[component].cid = "root"
         /\ KidIds(comps, component) = <<"b1", "b2">>)
        => /\ component' = component
           /\ comps'[component].kids = <<comps[component].kids[2]>>
           /\ comps'[comps[component].kids[2]].alive
           /\ ~comps'[comps[component].kids[1]].alive
           /\ KidIds(comps', component) = <<"b2">>
     /\ (/\ last'.op = "valueTreeChildAdded"
         /\ component # nullptr /\ both
         /\ Pristine(state) /\ state[RootNode].kids = <<3>>
         /\ state'[RootNode].kids = <<3, 4>>
         /\ comps[component].cid = "root"
         /\ KidIds(comps, component) = <<"b2">>)
        => /\ component' = component
           /\ Len(comps'[component].kids) = 2
           /\ comps'[component].kids[1] = comps[component].kids[1]
           /\ comps'[component].kids[2] \notin Alive(comps)
           /\ Alive(comps) \subseteq Alive(comps')
           /\ KidIds(comps', component) = <<"b2", "b3">>]_vars

\* "b3" was just added behind the scenes of a tree that lost "b1": the live
\* children are the old instance of "b2" and a new instance of "b3"
C5_Witness ==
  /\ last.op = "valueTreeChildAdded"
  /\ Pristine(state)
  /\ state[RootNode].kids = <<3, 4>>
  /\ component # nullptr
  /\ KidIds(comps, component) = <<"b2", "b3">>
  /\ srcOf[comps[component].kids[1]] = 3
  /\ last.created = {comps[component].kids[2]}
  /\ last.destroyed = 0

\* C6: a notification that arrives while the root instance does not exist
\* makes the builder do nothing: no instance is created, no handler
\* operation is invoked.
C6_NoActionBeforeRoot ==
  [][(last'.op \in NotificationOps /\ component = nullptr)
     => /\ component' = nullptr
        /\ comps' = comps
        /\ last'.calls = <<>>]_vars

\* C7: a child-list change notified for a parent node that has a registered
\* handler (and an id to be found by) and a live instance makes the builder
\* run the handler's update (the reconciliation of the children) on that
\* instance with the parent's current child list.
C7_ChildListChangeReconciles ==
  [][\A X \in Comps :
       (/\ last'.op \in ChildListOps
        /\ component # nullptr
        /\ ~Unmapped(types, state', last'.node)
        /\ comps[X].alive
        /\ srcOf[X] = last'.node)
       => \E i \in UpdateCalls(last'.calls) :
            /\ last'.calls[i].comp = X
            /\ last'.calls[i].node = last'.node]_vars

\* C8: a mutation notified on a node without handler or without id is
\* applied to the nearest ancestor that has both: that ancestor's handler
\* is asked to update that ancestor's live instance, and no update is
\* invoked for the unmapped node.
C8_AncestorWalk ==
  [][\A X \in Comps :
       LET n == last'.node
           a == NearestMapped(types, state', state'[n].parent)
       IN (/\ last'.op \in NotificationOps
           /\ component # nullptr
           /\ Unmapped(types, state', n)
           /\ a # 0
           /\ comps[X].alive
           /\ srcOf[X] = a)
          => /\ \A i \in UpdateCalls(last'.calls) :
                  /\ last'.calls[i].node = a
                  /\ last'.calls[i].comp = X
                  /\ last'.calls[i].h = getHandlerForState(types, state', a)
             /\ Cardinality(UpdateCalls(last'.calls)) = 1]_vars

\* C9: with ids unique among siblings, a mutation on a node that has a
\* handler, an id and a live instance carrying that id makes the builder
\* update that very instance and no other.
C9_UpdateTargetsOwnInstance ==
  [][\A X \in Comps :
       LET n == last'.node IN
       (/\ last'.op \in NotificationOps
        /\ component # nullptr
        /\ ~Unmapped(types, state', n)
        /\ comps[X].alive
        /\ srcOf[X] = n
        /\ comps[X].cid = getStateId(state', n))
       => /\ Cardinality(UpdateCalls(last'.calls)) = 1
          /\ \A i \in UpdateCalls(last'.calls) : last'.calls[i].comp = X]_vars

\* C10: every live instance the builder created carries the id of the state
\* node it was created from.
C10_IdMatchesSource ==
  \A c \in Comps :
    (comps[c].alive /\ srcOf[c] # 0) => comps[c].cid = getStateId(state, srcOf[c])

\* the children of node p whose type has a registered handler, in list order
HandledKids(ty, t, p) ==
  SelectSeq(t[p].kids, LAMBDA n : getHandlerForState(ty, t, n) # nullptr)

IdsOf(t, nodes) == [i \in 1..Len(nodes) |-> getStateId(t, nodes[i])]

\* C11: when a handler's update reconciles a live instance X with a child
\* list that holds nodes of a type without registered handler, whose ids
\* match no existing child of X, no instance is made for those nodes and the
\* rest of the list is reconciled as usual: afterwards the children of X are
\* the instances for the handled nodes, in list order (last one frontmost),
\* existing children are reused by id, the others are destroyed, and handler
\* creation is invoked exactly for the handled nodes that matched nothing.
C11_UnknownTypeDegrades ==
  [][\A i \in UpdateCalls(last'.calls) :
       LET X     == last'.calls[i].comp
           p     == last'.calls[i].node
           ks    == state'[p].kids
           known == HandledKids(types, state', p)
           old   == KidIds(comps, X)
       IN (/\ comps[X].alive
           /\ Len(known) < Len(ks)
           /\ \A j \in 1..Len(ks) :
                getHandlerForState(types, state', ks[j]) = nullptr
                  => getStateId(state', ks[j]) \notin Range(old))
          => /\ KidIds(comps', X) = IdsOf(state', known)
             /\ \A c \in Range(comps[X].kids) :
                  IF comps[c].cid \in Range(IdsOf(state', known))
                    THEN comps'[c].alive /\ c \in Range(comps'[X].kids)
                    ELSE ~comps'[c].alive
             /\ \A j \in 1..Len(ks) :
                  (\E k \in CreateCalls(last'.calls) : last'.calls[k].node = ks[j])
                    <=> /\ getHandlerForState(types, state', ks[j]) # nullptr
                        /\ getStateId(state', ks[j]) \notin Range(old)]_vars

\* a node of unknown type was added in front of two Buttons whose instances
\* were still missing: both were created in that call, none for the new node
C11_Witness ==
  /\ last.op = "valueTreeChildAdded"
  /\ last.node = RootNode
  /\ state[RootNode].kids = <<4, 2, 3>>
  /\ state[4].type = "Label"
  /\ component # nullptr
  /\ KidIds(comps, component) = <<"b1", "b2">>
  /\ Cardinality(last.created) = 2
  /\ last.jassert

\* the handler creations of a call that were given a null parent
RootCreations(calls) == {k \in CreateCalls(calls) : calls[k].parent = nullptr}

\* C12: the builder owns at most one root instance.  While there is none and
\* the root state's type has a handler, getManagedComponent (called by a
\* client or on a notification) invokes handler creation exactly once with a
\* null parent, for the root state; once there is one, every call leaves the
\* builder with that same live instance and creates no other root.
C12_SingleRoot ==
  [][/\ (component # nullptr)
          => /\ component' = component
             /\ comps'[component].alive
             /\ RootCreations(last'.calls) = {}
     /\ (component = nullptr /\ last'.op \in NotificationOps \cup {"getManagedComponent"}
           /\ getHandlerForState(types, state', RootNode) # nullptr)
          => /\ component' # nullptr
             /\ Cardinality(RootCreations(last'.calls)) = 1
             /\ \A k \in RootCreations(last'.calls) :
                  /\ last'.calls[k].node = RootNode
                  /\ last'.calls[k].comp = component'
                  /\ last'.calls[k].h = getHandlerForState(types, state', RootNode)
     /\ \A c \in Comps :
          (comps'[c].alive /\ comps'[c].parent = nullptr) => c = component']_vars

\* a client asked again for the root, which existed with two children: the
\* call invoked no handler and changed nothing
C12_Witness ==
  /\ last.op = "getManagedComponent"
  /\ last.hadRoot
  /\ last.calls = <<>>
  /\ last.created = {}
  /\ component # nullptr
  /\ Len(comps[component].kids) = 2

\* C15: a client's request for the root while no handler is registered, or
\* none for the root state's type, trips an assertion, invokes no handler,
\* returns no instance and leaves the builder without a root and the live
\* tree as it was; a request made once the handler is registered creates it.
C15_RootWithoutHandler ==
  [][(last'.op = "getManagedComponent" /\ component = nullptr) =>
       IF getHandlerForState(types, state, RootNode) = nullptr
         THEN /\ last'.jassert
              /\ last'.calls = <<>>
              /\ component' = nullptr
              /\ comps' = comps
         ELSE /\ component' # nullptr
              /\ comps'[component'].alive
              /\ srcOf'[component'] = RootNode]_vars

\* the Button handler is registered, the Panel handler of the root is not,
\* and a client's request for the root has just failed
C15_Witness ==
  /\ last.op = "getManagedComponent"
  /\ types = <<2>>
  /\ state[RootNode].type = "Panel"
  /\ last.jassert
  /\ component = nullptr
  /\ Alive(comps) = {}

\* C19 as stated: a notification invokes updateComponentFromState at most
\* once, for the first node on the way up from the notifying node that has a
\* handler and a non-empty id; when it invokes none (no live instance carries
\* that node's id, or no node up to the root has handler and id) the live
\* tree is left as it was.
C19_AsStated ==
  [][last'.op \in NotificationOps =>
       /\ Cardinality(UpdateCalls(last'.calls)) <= 1
       /\ \A k \in UpdateCalls(last'.calls) :
            last'.calls[k].node = NearestMapped(types, state', last'.node)
       /\ UpdateCalls(last'.calls) = {} => (comps' = comps /\ component' = component)]_vars

\* ------------------------------------------------------------------------
\* Properties of the registry (SpecReg)
\* ------------------------------------------------------------------------
\* C13 as stated: a registerTypeHandler call with a null handler or with a
\* handler that already has a builder reports a precondition violation and
\* leaves the registry and the handler's builder as they were; any other call
\* appends the handler and makes this builder its builder.
C13_AsStated ==
  [][last'.op = "registerTypeHandler" =>
       IF last'.node = nullptr \/ builder[last'.node] # nullptr
         THEN /\ last'.jassert
              /\ types' = types
              /\ builder' = builder
         ELSE /\ ~last'.jassert
              /\ types' = Append(types, last'.node)
              /\ builder' = [builder EXCEPT ![last'.node] = This]]_vars

\* C14 as stated: the registry never holds two handlers of one type tag
\* (whatever registerTypeHandler calls were made).
C14_OneHandlerPerTag ==
  ~ub => \A i, j \in 1..Len(types) :
           HandlerType[types[i]] = HandlerType[types[j]] => i = j

\* C16: getHandlerForState (s) returns the earliest registered handler whose
\* type is the type of s, returns none exactly when no registered handler has
\* that type, and leaves the registry as it was.
C16_EarliestMatch ==
  [][last'.op = "getHandlerForState" =>
       LET target == state[last'.node].type
           hits   == {i \in 1..Len(types) : HandlerType[types[i]] = target}
       IN  /\ types' = types
           /\ builder' = builder
           /\ (last'.result = nullptr) <=> (hits = {})
           /\ hits # {} =>
                \E i \in hits : /\ last'.result = types[i]
                                /\ \A j \in hits : i <= j]_vars

\* two handlers of the type "Button" are registered, the third handler before
\* the second, and a look-up for a Button state returned the third
C16_Witness ==
  /\ last.op = "getHandlerForState"
  /\ types = <<1, 3, 2>>
  /\ state[last.node].type = "Button"
  /\ last.result = 3

\* ------------------------------------------------------------------------
\* Properties of the native file chooser (SpecFC)
\* ------------------------------------------------------------------------
\* C20: showPlatformDialog constructs a Native, returns it and makes it
\* currentFileChooser when currentFileChooser is null; otherwise it constructs
\* nothing, returns none and leaves currentFileChooser as it is; and after
\* every step currentFileChooser is null or a Native that is not destroyed.
C20_SingleCurrentChooser ==
  [][/\ last'.op = "showPlatformDialog" =>
          IF currentFileChooser = nullptr
            THEN /\ last'.result # nullptr
                 /\ natives[last'.result] = "none"
                 /\ natives' = [natives EXCEPT ![last'.result] = "alive"]
                 /\ currentFileChooser' = last'.result
            ELSE /\ last'.result = nullptr
                 /\ last'.jassert
                 /\ natives' = natives
                 /\ currentFileChooser' = currentFileChooser
     /\ currentFileChooser' # nullptr => natives'[currentFileChooser'] = "alive"]_vars

\* a chooser is current and a request for another one has just been refused
C20_Witness ==
  /\ last.op = "showPlatformDialog"
  /\ last.result = nullptr
  /\ last.jassert
  /\ natives[1] = "alive"
  /\ natives[2] = "none"
  /\ currentFileChooser = 1

\* C21 as stated: the destruction of a Native that is not the current one
\* leaves currentFileChooser as it is, and a launch of a chooser that has
\* started no activity yet (it became current when it was constructed)
\* starts its activity.
C21_AsStated ==
  [][/\ (last'.op = "~Native" /\ currentFileChooser # last'.node)
          => currentFileChooser' = currentFileChooser
     /\ (last'.op = "launch" /\ pending[last'.node] + delivered[last'.node] = 0)
          => /\ ~last'.jassert
             /\ pending'[last'.node] = 1]_vars

\* C22 as stated: an activity result that arrives while the Native lives
\* clears currentFileChooser and calls owner.finished once, with no URL when
\* the result code is not RESULT_OK or there is no intent data; a result that
\* arrives after the Native was destroyed calls nothing and changes nothing;
\* and a launch on an object a result was delivered to starts no activity.
C22_AsStated ==
  [][/\ last'.op = "onActivityResult" =>
          IF natives[last'.node] = "alive"
            THEN /\ currentFileChooser' = nullptr
                 /\ Len(last'.finished) = 1
                 /\ (last'.resultCode # RESULT_OK \/ last'.isNull)
                      => last'.finished[1] = <<>>
            ELSE /\ last'.finished = <<>>
                 /\ currentFileChooser' = currentFileChooser
     /\ (last'.op = "launch" /\ delivered[last'.node] > 0)
          => pending' = pending]_vars

\* ------------------------------------------------------------------------
\* Properties of the OpenGL helpers (SpecExt)
\* ------------------------------------------------------------------------
\* C23 as stated: on the legacy path isExtensionSupported (name) is true
\* exactly when name is one of the space-separated tokens of the extension
\* string.
C23_AsStated ==
  (last.op = "isExtensionSupported" /\ LegacyPath(gl))
    => (last.result <=> last.arg \in Tokens(gl.extensions))

\* ------------------------------------------------------------------------
\* Properties of the shader helpers (SpecGLSL)
\* ------------------------------------------------------------------------
\* the version is below 3.2 in the lexicographic order on (major, minor)
Below32(v) == v.major < 3 \/ (v.major = 3 /\ v.minor < 2)

\* the version line of the modern dialect in the build
ModernLine == IF gl.es THEN "#version 300 es" ELSE "#version 150"

TranslateOps == {"translateVertexShaderToV3", "translateFragmentShaderToV3"}

\* C24: versions compare lexicographically on (major, minor) and the helpers
\* change dialect exactly at 3.2.  Below 3.2 getGLSLVersionString returns
\* "#version 110" and both translations return their input; from 3.2 on
\* getGLSLVersionString returns the modern version line and both translations
\* return a text that begins with that line and a newline.
C24_DialectSwitchAt32 ==
  /\ VersionGeq(getOpenGLVersion(gl), V32) <=> ~Below32(getOpenGLVersion(gl))
  /\ last.op = "getGLSLVersionString" =>
       last.result = IF Below32(getOpenGLVersion(gl)) THEN "#version 110" ELSE ModernLine
  /\ last.op \in TranslateOps =>
       IF Below32(getOpenGLVersion(gl))
         THEN last.result = last.arg
         ELSE /\ Len(last.result) >= 2
              /\ last.result[1] = ModernLine
              /\ last.result[2] = "\n"

\* a context "OpenGL 4.0" (a minor number below 2) in a desktop build: the
\* vertex shader came back in the modern dialect
C24_Witness ==
  /\ last.op = "translateVertexShaderToV3"
  /\ gl.version = <<[major |-> 0, minor |-> 0], [major |-> 4, minor |-> 0]>>
  /\ ~gl.es /\ ~gl.android
  /\ last.arg = <<"attribute", "varying">>
  /\ last.result = <<"#version 150", "\n", "in", "out">>

====
